---- MODULE Spec2Model ----
(***************************************************************************)
(* MailTrace run pipeline: run rows, raw staging, normalized staging, the  *)
(* matches table, in-flight start_pipeline requests and matcher threads.   *)
(* A request or a thread keeps its position (pc) and its local variables   *)
(* between steps; a step is a block of consecutive statements of one       *)
(* request or thread that ends with a commit, and it leaves the database   *)
(* as the last commit of the block leaves it.                               *)
(*                                                                         *)
(* Spec follows one account: the files and the mail mapping of a run are   *)
(* stored before its first start (the mail file once, the mapping after    *)
(* it) and the run is started by its owner.  SpecApi opens the routes to   *)
(* two accounts, any caller on any run at any time.  SpecRuns follows run  *)
(* creation by two accounts.  SpecMatch and SpecPick call the matcher on   *)
(* its own, SpecScore the scoring, SpecRaw the raw ingestion, SpecList the *)
(* run history and SpecAssets the asset routes.                            *)
(***************************************************************************)
EXTENDS Integers, Sequences, FiniteSets, TLC

\* ------------------------------------------------------------------ bounds
MaxRuns    == 2   \* rows ever inserted into runs
MaxWorkers == 2   \* matcher threads ever spawned
MaxStarts  == 3   \* POST /runs/<id>/start requests ever issued

\* ------------------------------------------------------------- input sets
Users == {"u1"}

\* the second account of the open API environment
ApiUsers == {"u1", "u2"}

NULL == "NULL"

\* rows of an uploaded CSV, header -> cell; a date cell is the text of a day
\* of January 2024.  Every file also has the columns OtherCols, whose cells
\* are not followed.
MailRow(k, a, d) == [key |-> k, address1 |-> a, sent_date |-> d]
CrmRow(s, a, d)  == [source_id |-> s, address1 |-> a, job_date |-> d]

MailFiles ==
  { << MailRow("k1", "12 Main Street", "2024-01-10"),
       MailRow("k2", "9 oak rd", "2024-01-05"),
       MailRow("k1", "12 main st", "") >> }

CrmFiles ==
  { << CrmRow("j1", "12 Main Street", "2024-01-05"),
       CrmRow("", "9 oak rd", "2024-01-05"),
       CrmRow("", "", "") >>,
    << CrmRow("", "", "") >> }

\* a mail file whose address column has a header no alias knows
MailFileLocation ==
  << [key |-> "k1", location |-> "12 main st", sent_date |-> "2024-01-05"] >>

OtherCols == [mail |-> {"id", "city", "state", "zip"},
              crm  |-> {"crm_id", "city", "state", "zip"}]

\* mapping documents a user saves: canonical field -> header
NoMapping       == [c \in {} |-> ""]
MappingKey      == [mail_key |-> "key"]
MappingLocation == [mail_key |-> "key", address1 |-> "location"]

\* the files and the mapping of the open API environment
ApiMailFiles == {MailFileLocation}
ApiCrmFiles  == {f \in CrmFiles : Len(f) > 1}
ApiMappings  == {MappingLocation}

\* --------------------------------------------------------------- variables
VARIABLES
  runs,          \* table runs, indexed by run id 1..Len(runs)
  raw_mail,      \* table staging_raw_mail: run id -> rows ordered by rownum
  raw_crm,       \* table staging_raw_crm
  staging_mail,  \* table staging_mail (set of rows)
  staging_crm,   \* table staging_crm (set of rows)
  matches,       \* table matches (set of rows, id is the serial key)
  reqs,          \* run id -> the start_pipeline request in flight on it
  workers,       \* matcher threads in spawn order
  nstarts,       \* start requests issued so far
  mappings,      \* table mappings (set of rows, one per (run_id, source))
  resp,          \* the last response of an API request that answers at once
  mt             \* a direct call of the matcher: its arguments and result

core == <<runs, raw_mail, raw_crm, staging_mail, staging_crm, matches,
          reqs, workers, nstarts>>

vars == <<runs, raw_mail, raw_crm, staging_mail, staging_crm, matches,
          reqs, workers, nstarts, mappings, resp, mt>>

RunIds == 1..Len(runs)

\* ----------------------------------------------------------- status labels
STEP ==
  [ starting         |-> [pct |-> 5,   msg |-> "Starting run"],
    normalizing_mail |-> [pct |-> 15,  msg |-> "Normalizing Mail (reading RAW)"],
    mail_inserting   |-> [pct |-> 35,  msg |-> "Normalizing Mail (writing to staging)"],
    mail_ready       |-> [pct |-> 55,  msg |-> "Mail normalized"],
    normalizing_crm  |-> [pct |-> 60,  msg |-> "Normalizing CRM (reading RAW)"],
    crm_inserting    |-> [pct |-> 78,  msg |-> "Normalizing CRM (writing to staging)"],
    crm_ready        |-> [pct |-> 85,  msg |-> "CRM normalized"],
    matching         |-> [pct |-> 90,  msg |-> "Linking Mail <-> CRM"],
    aggregating      |-> [pct |-> 97,  msg |-> "Aggregating results"],
    done             |-> [pct |-> 100, msg |-> "Run complete"],
    failed           |-> [pct |-> 100, msg |-> "Run failed"] ]

Terminal == {"done", "failed"}

\* run_dao.update_step: step, pct, message are overwritten unconditionally;
\* status changes only when the step is done or failed
update_step(rs, r, s, p, m) ==
  [rs EXCEPT ![r] = [@ EXCEPT !.step = s, !.pct = p, !.message = m,
                              !.status = IF s \in Terminal THEN s ELSE @]]

\* pipeline._set with the default pct and label of the step
Set(rs, r, key) == update_step(rs, r, key, STEP[key].pct, STEP[key].msg)

\* pipeline._fail: the write half (the RuntimeError ends the request)
Fail(rs, r, m) == update_step(rs, r, "failed", 100, m)

\* pipeline._tick: always writes step = matching
Tick(rs, r, substep, p) == update_step(rs, r, "matching", p, substep)

\* run_dao.status(...).status as get_status reports it
get_status(r) == [status  |-> runs[r].status,
                  pct     |-> runs[r].pct,
                  step    |-> runs[r].step,
                  message |-> runs[r].message]

\* run_dao.pair_ready
pair_ready(r) ==
  /\ \E m \in staging_mail : m.run_id = r
  /\ \E c \in staging_crm  : c.run_id = r

\* ------------------------------------------------------------------- Init
IdleReq == [pc |-> "idle", uid |-> NULL, rows |-> <<>>, n |-> 0]

NoResp == [op |-> NULL, uid |-> NULL, run |-> 0, code |-> 0, body |-> NULL]
NoCall == [mail |-> <<>>, crm |-> <<>>, topk |-> 1, called |-> FALSE,
           out |-> <<>>]

Init ==
  /\ runs = <<>>
  /\ raw_mail = <<>>
  /\ raw_crm = <<>>
  /\ staging_mail = {}
  /\ staging_crm = {}
  /\ matches = {}
  /\ reqs = <<>>
  /\ workers = <<>>
  /\ nstarts = 0
  /\ mappings = {}
  /\ resp = NoResp
  /\ mt = NoCall

\* --------------------------------------------------------- run_dao creation
\* the SELECT of create_or_get_active_run: the latest run of the user whose
\* status is neither done nor failed (runs are numbered in started_at
\* order), 0 for no row
existing_run(u) ==
  LET act == {r \in RunIds : runs[r].user_id = u /\ runs[r].status \notin Terminal}
  IN IF act = {} THEN 0 ELSE CHOOSE r \in act : \A q \in act : q <= r

\* the same request without the SELECT: create_run every time
create_run_always(u) ==
  /\ Len(runs) < MaxRuns
  /\ runs' = Append(runs, [user_id |-> u, status |-> "queued", step |-> NULL,
                           pct |-> 0, message |-> NULL,
                           mail_ready |-> FALSE, crm_ready |-> FALSE])
  /\ raw_mail' = Append(raw_mail, <<>>)
  /\ raw_crm' = Append(raw_crm, <<>>)
  /\ reqs' = Append(reqs, IdleReq)
  /\ UNCHANGED <<mappings, resp, mt, staging_mail, staging_crm, matches, workers, nstarts>>

\* create_or_get_active_run: a new queued run only when the user has no run
\* whose status is neither done nor failed (the reuse path writes nothing)
create_or_get_active_run(u) ==
  /\ Len(runs) < MaxRuns
  /\ existing_run(u) = 0
  /\ runs' = Append(runs, [user_id |-> u, status |-> "queued", step |-> NULL,
                           pct |-> 0, message |-> NULL,
                           mail_ready |-> FALSE, crm_ready |-> FALSE])
  /\ raw_mail' = Append(raw_mail, <<>>)
  /\ raw_crm' = Append(raw_crm, <<>>)
  /\ reqs' = Append(reqs, IdleReq)
  /\ UNCHANGED <<mappings, resp, mt, staging_mail, staging_crm, matches, workers, nstarts>>

\* ------------------------------------------------ services/mapper.py
REQUIRED_MAIL == {"id", "address1", "city", "state", "zip", "sent_date"}
REQUIRED_CRM  == {"crm_id", "address1", "city", "state", "zip", "job_date"}

ALIAS_MAIL ==
  [id        |-> <<"id", "mail_id", "record_id">>,
   address1  |-> <<"address1", "addr1", "address 1", "address", "street",
                   "line1", "line 1">>,
   address2  |-> <<"address2", "addr2", "address 2", "unit", "line2", "apt",
                   "apartment", "suite", "line 2">>,
   city      |-> <<"city", "town">>,
   state     |-> <<"state", "st">>,
   zip       |-> <<"postal_code", "zip", "zipcode", "zip_code", "zip code">>,
   sent_date |-> <<"sent_date", "sent date", "mail_date", "mail date", "date",
                   "sent", "mailed", "mailed_at", "mailed at", "date mailed",
                   "mailed date", "mailed_on", "mailed on", "postmark",
                   "postmarked", "postmark date", "mailing date",
                   "outbound date">>]

ALIAS_CRM ==
  [crm_id    |-> <<"crm_id", "lead_id", "job_id", "id">>,
   source_id |-> <<"source_id", "source id", "external_id", "ext_id">>,
   address1  |-> <<"address1", "addr1", "address 1", "address", "street",
                   "line1", "line 1">>,
   address2  |-> <<"address2", "addr2", "address 2", "unit", "line2", "apt",
                   "apartment", "suite", "line 2">>,
   city      |-> <<"city", "town">>,
   state     |-> <<"state", "st">>,
   zip       |-> <<"postal_code", "zip", "zipcode", "zip_code", "zip code">>,
   job_date  |-> <<"job_date", "date", "created_at", "job date">>,
   job_value |-> <<"job_value", "amount", "value", "revenue", "job value">>]

canon_for(source) ==
  IF source = "mail" THEN [required |-> REQUIRED_MAIL, alias |-> ALIAS_MAIL]
  ELSE [required |-> REQUIRED_CRM, alias |-> ALIAS_CRM]

\* dict.get: None for an absent key
Get(row, h) == IF h \in DOMAIN row THEN row[h] ELSE NULL

\* None and "" are the values Python's `or` and `in (None, "")` pass over
Falsy(v) == v \in {NULL, ""}
Str(v)   == IF v = NULL THEN "" ELSE v

RECURSIVE first_present(_, _)
first_present(row, names) ==
  IF names = <<>> THEN NULL
  ELSE IF Head(names) \in DOMAIN row /\ ~ Falsy(row[Head(names)])
       THEN row[Head(names)]
       ELSE first_present(row, Tail(names))

\* one row of apply_mapping: the explicit mapping first, then every alias
\* key that is still absent or empty is filled from its alias list (headers
\* of the input sets are lower-case already)
apply_mapping_row(row, mapping, alias) ==
  LET explicit == [want \in {w \in DOMAIN mapping : mapping[w] # ""} |->
                     Get(row, mapping[want])]
  IN [want \in DOMAIN explicit \cup DOMAIN alias |->
        IF want \in DOMAIN alias
           /\ (want \notin DOMAIN explicit \/ Falsy(explicit[want]))
        THEN first_present(row, alias[want] \o <<want>>)
        ELSE explicit[want]]

apply_mapping(rows, mapping, alias) ==
  [i \in 1..Len(rows) |-> apply_mapping_row(rows[i], mapping, alias)]

\* the required fields that are empty in every row (all of them when there
\* is no row); the cells of OtherCols are filled in every row
missing_required(normalized, required, source) ==
  IF normalized = <<>> THEN required
  ELSE {k \in required \ OtherCols[source] :
          \A i \in 1..Len(normalized) : Falsy(Get(normalized[i], k))}

\* ------------------------------------------------ dao/mapper_dao.py
\* get_raw_headers(sample = 1): the keys of the first raw row
get_raw_headers(r, source) ==
  LET rows == IF source = "mail" THEN raw_mail[r] ELSE raw_crm[r]
  IN IF rows = <<>> THEN {} ELSE DOMAIN rows[1] \cup OtherCols[source]

get_mapping(r, source) ==
  LET hit == {m \in mappings : m.run_id = r /\ m.source = source}
  IN IF hit = {} THEN NoMapping ELSE (CHOOSE m \in hit : TRUE).mapping

\* save_mapping: upsert on (run_id, source), the caller becomes the row's user
save_mapping(r, u, source, mapping) ==
  /\ get_mapping(r, source) # mapping
     \/ \E m \in mappings : m.run_id = r /\ m.source = source /\ m.user_id # u
  /\ mappings' = {m \in mappings : ~ (m.run_id = r /\ m.source = source)}
                 \cup {[run_id |-> r, user_id |-> u, source |-> source,
                        mapping |-> mapping]}
  /\ UNCHANGED core
  /\ UNCHANGED <<resp, mt>>

\* pipeline.to_date_or_none on the date cells of the input sets: the day of
\* the month, NoDate for None
NoDate == 0

to_date_or_none(v) ==
  CASE v = "2024-01-05" -> 5
    [] v = "2024-01-10" -> 10
    [] OTHER            -> NoDate

\* ------------------------------------------ pipeline.check_mapping_readiness
\* the same check without the saved mapping: aliases and canonical names only
missing_for_alias_only(r, source) ==
  LET cf      == canon_for(source)
      raw_lc  == get_raw_headers(r, source)
      covered == {canon \in DOMAIN cf.alias :
                    \E i \in 1..Len(cf.alias[canon] \o <<canon>>) :
                       (cf.alias[canon] \o <<canon>>)[i] \in raw_lc}
  IN cf.required \ covered

\* per source, the required canonical fields that are neither mapped to an
\* existing raw header nor reachable through an alias; sources with nothing
\* missing are left out
missing_for(r, source) ==
  LET cf      == canon_for(source)
      raw_lc  == get_raw_headers(r, source)
      mapping == get_mapping(r, source)
      covered == {canon \in DOMAIN mapping : mapping[canon] \in raw_lc}
                 \cup {canon \in DOMAIN cf.alias :
                         \E i \in 1..Len(cf.alias[canon] \o <<canon>>) :
                            (cf.alias[canon] \o <<canon>>)[i] \in raw_lc}
  IN cf.required \ covered

check_mapping_readiness(r) ==
  [source \in {x \in {"mail", "crm"} : missing_for(r, x) # {}} |->
     missing_for(r, source)]

\* ------------------------------------------------ utils/normalize.py
\* normalize_address1 on the addresses of the input sets: lower-case, street
\* type canonicalised
normalize_address1(a) ==
  CASE a = "12 main st"     -> "12 main street"
    [] a = "12 Main Street" -> "12 main street"
    [] a = "12 maple st"    -> "12 maple street"
    [] a = "12 maine st"    -> "12 maine street"
    [] a = "12 mainly st"   -> "12 mainly street"
    [] a = "9 oak rd"       -> "9 oak road"
    [] OTHER                -> ""

\* block_key: "<first token>|<initial of second token>", lower-cased
block_key(a) ==
  CASE a = "12 main st"     -> "12|m"
    [] a = "12 Main Street" -> "12|m"
    [] a = "12 maple st"    -> "12|m"
    [] a = "12 maine st"    -> "12|m"
    [] a = "12 mainly st"   -> "12|m"
    [] a = "9 oak rd"       -> "9|o"
    [] OTHER                -> ""

\* build_full_address restricted to address1 (the other parts are empty)
build_full_address(a) == normalize_address1(Str(a))

\* "jid_" + sha1(full_address | date)[:16] on the addresses of the input sets
JidHash(full, d) ==
  CASE full = "12 main street" /\ d = 5  -> "jid_12main_5"
    [] full = "12 main street" /\ d = 10 -> "jid_12main_10"
    [] full = "9 oak road"     /\ d = 5  -> "jid_9oak_5"
    [] full = "9 oak road"     /\ d = 10 -> "jid_9oak_10"
    [] OTHER                             -> "jid_other"

\* build_job_index: the source id when present, else the hash when BOTH the
\* full address and the date are present, else None
build_job_index(sid, full, d) ==
  IF ~ Falsy(sid) THEN sid
  ELSE IF full # "" /\ d # NoDate THEN JidHash(full, d)
  ELSE NULL

\* ------------------------------------------------ mapper_dao normalized
\* in-memory de-dup by mail_key, first occurrence kept
RECURSIVE dedup_mail(_, _)
dedup_mail(rows, seen) ==
  IF rows = <<>> THEN <<>>
  ELSE IF Head(rows).mail_key \in seen THEN dedup_mail(Tail(rows), seen)
  ELSE <<Head(rows)>> \o dedup_mail(Tail(rows), seen \cup {Head(rows).mail_key})

RECURSIVE dedup_crm(_, _)
dedup_crm(rows, seen) ==
  IF rows = <<>> THEN <<>>
  ELSE IF Head(rows).job_index \in seen THEN dedup_crm(Tail(rows), seen)
  ELSE <<Head(rows)>> \o dedup_crm(Tail(rows), seen \cup {Head(rows).job_index})

\* the same INSERT without its ON CONFLICT clause
upsert_mail_row_plain_insert(tbl, r, u, x) ==
  tbl \cup {[run_id |-> r, user_id |-> u, mail_key |-> x.mail_key,
             address1 |-> Str(x.address1), sent_date |-> x.sent_date,
             line_no |-> Cardinality(tbl) + 1]}

\* one INSERT .. ON CONFLICT (user_id, mail_key) DO UPDATE: a known key is
\* rebound to the incoming run and refreshed, line_no stays; a new key gets
\* the next value of the line_no sequence
upsert_mail_row(tbl, r, u, x) ==
  LET old == {t \in tbl : t.user_id = u /\ t.mail_key = x.mail_key}
  IN IF old = {}
     THEN tbl \cup {[run_id |-> r, user_id |-> u, mail_key |-> x.mail_key,
                     address1 |-> Str(x.address1), sent_date |-> x.sent_date,
                     line_no |-> Cardinality(tbl) + 1]}
     ELSE (tbl \ old) \cup
          {[t EXCEPT !.run_id = r, !.address1 = Str(x.address1),
                     !.sent_date = x.sent_date] : t \in old}

RECURSIVE upsert_mail(_, _, _, _)
upsert_mail(tbl, r, u, rows) ==
  IF rows = <<>> THEN tbl
  ELSE upsert_mail(upsert_mail_row(tbl, r, u, Head(rows)), r, u, Tail(rows))

\* insert_normalized_mail raises ValueError, before it writes anything, when
\* a row has no mail_key
mail_key_missing(rows) ==
  \E i \in 1..Len(rows) : Falsy(rows[i].mail_key)

\* insert_normalized_mail (rows non-empty, every mail_key non-empty)
insert_normalized_mail(tbl, r, u, rows) ==
  upsert_mail(tbl, r, u, dedup_mail(rows, {}))

upsert_crm_row(tbl, r, u, x) ==
  LET old == {t \in tbl : t.user_id = u /\ t.job_index = x.job_index}
  IN IF old = {}
     THEN tbl \cup {[run_id |-> r, user_id |-> u, job_index |-> x.job_index,
                     address1 |-> Str(x.address1), job_date |-> x.job_date,
                     line_no |-> Cardinality(tbl) + 1]}
     ELSE (tbl \ old) \cup
          {[t EXCEPT !.run_id = r, !.address1 = Str(x.address1),
                     !.job_date = x.job_date] : t \in old}

RECURSIVE upsert_crm(_, _, _, _)
upsert_crm(tbl, r, u, rows) ==
  IF rows = <<>> THEN tbl
  ELSE upsert_crm(upsert_crm_row(tbl, r, u, Head(rows)), r, u, Tail(rows))

insert_normalized_crm(tbl, r, u, rows) ==
  upsert_crm(tbl, r, u, dedup_crm(rows, {}))

\* ------------------------------------------------ mapper.ingest_raw_file
\* mapper_dao.insert_raw_rows: replace the raw rows of (run_id, source)
insert_raw_rows(tbl, r, rows) == [tbl EXCEPT ![r] = rows]

\* the same statements on the table of one source as a set of rows
\* (run_id, user_id, rownum, data); first without the DELETE
insert_raw_rows_no_delete(tbl, rid, uid, rows) ==
  tbl \cup {[run_id |-> rid, user_id |-> uid, rownum |-> n, data |-> rows[n]] :
              n \in 1..Len(rows)}

\* DELETE FROM <tbl> WHERE run_id = :rid, then one INSERT per row with
\* rownum from enumerate(rows, start = 1)
insert_raw_rows_tbl(tbl, rid, uid, rows) ==
  {x \in tbl : x.run_id # rid}
  \cup {[run_id |-> rid, user_id |-> uid, rownum |-> n, data |-> rows[n]] :
          n \in 1..Len(rows)}

\* ingest_raw_file up to the commit of the raw rows, on the two raw tables;
\* last remembers the file of the latest upload of each (run_id, source)
call_insert_raw_rows(rid, uid, source, rows) ==
  /\ mt' = [mt EXCEPT ![source] = insert_raw_rows_tbl(mt[source], rid, uid, rows),
                      !.last[<<rid, source>>] = rows]
  /\ UNCHANGED core
  /\ UNCHANGED <<mappings, resp>>

\* the mail rows as normalize_from_raw hands them to the insert: the mapped
\* row with its date parsed (no mail_key is computed: a row has one only when
\* the mapping names a column for it); the upload hands the same rows to the
\* insert, where the Date column casts the date text
mail_rows_for_db(raw, mapping) ==
  LET n == apply_mapping(raw, mapping, ALIAS_MAIL)
  IN [i \in 1..Len(n) |-> [mail_key  |-> Get(n[i], "mail_key"),
                           address1  |-> n[i].address1,
                           sent_date |-> to_date_or_none(n[i].sent_date)]]

\* upload of a mail file: the raw rows are replaced and committed; when the
\* saved mapping leaves no required field empty and gives every row a
\* mail_key the rows are also upserted into staging_mail and the run's
\* mail_ready flag is set
ingest_raw_file_mail(r, u, rows) ==
  LET mapping    == get_mapping(r, "mail")
      normalized == apply_mapping(rows, mapping, ALIAS_MAIL)
      missing    == missing_required(normalized, REQUIRED_MAIL, "mail")
      payload    == mail_rows_for_db(rows, mapping)
      persist    == ~ mail_key_missing(payload) /\ missing = {}
  IN /\ raw_mail[r] # rows \/ persist
     /\ raw_mail' = insert_raw_rows(raw_mail, r, rows)
     /\ IF persist
        THEN /\ staging_mail' = insert_normalized_mail(staging_mail, r, u, payload)
             /\ runs' = [runs EXCEPT ![r].mail_ready = TRUE]
        ELSE UNCHANGED <<runs, staging_mail>>
     /\ UNCHANGED <<raw_crm, staging_crm, matches, reqs, workers, nstarts,
                    mappings, resp, mt>>

\* upload of a CRM file: the raw rows are replaced and committed; the mapped
\* rows carry no job_index, so the insert into staging_crm raises ValueError
\* (or the mapping is reported as missing) and nothing else is written
ingest_raw_file_crm(r, u, rows) ==
  /\ raw_crm[r] # rows
  /\ raw_crm' = insert_raw_rows(raw_crm, r, rows)
  /\ UNCHANGED <<mappings, resp, mt, runs, raw_mail, staging_mail, staging_crm, matches, reqs,
                 workers, nstarts>>

\* ------------------------------------------------ pipeline.start_pipeline
SetReq(r, rec) == reqs' = [reqs EXCEPT ![r] = rec]
EndReq(r)      == reqs' = [reqs EXCEPT ![r] = IdleReq]

\* api.start_run with nothing missing -> start_pipeline: mark_start
sp_mark_start(r, u) ==
  /\ reqs[r].pc = "idle"
  /\ nstarts < MaxStarts
  /\ DOMAIN check_mapping_readiness(r) = {}
  /\ nstarts' = nstarts + 1
  /\ runs' = Set(runs, r, "starting")
  /\ SetReq(r, [IdleReq EXCEPT !.pc = "starting", !.uid = u])
  /\ UNCHANGED <<mappings, resp, mt, raw_mail, raw_crm, staging_mail, staging_crm, matches, workers>>

\* _set(normalizing_mail), then normalize_from_raw(mail) up to the insert:
\* get_raw_rows + apply_mapping; zero rows fail the run, else the rows are
\* kept and the step goes to mail_inserting
nfr_read_mail(r) ==
  /\ reqs[r].pc = "starting"
  /\ IF raw_mail[r] = <<>>
     THEN /\ runs' = Fail(runs, r, "MAIL normalization produced 0 rows")
          /\ EndReq(r)
     ELSE /\ runs' = Set(runs, r, "mail_inserting")
          /\ SetReq(r, [reqs[r] EXCEPT !.pc = "mail_inserting",
                                       !.rows = mail_rows_for_db(raw_mail[r],
                                                  get_mapping(r, "mail"))])
  /\ UNCHANGED <<mappings, resp, mt, raw_mail, raw_crm, staging_mail, staging_crm, matches, workers, nstarts>>

\* insert_normalized_mail + update_counts (one commit), then _set(mail_ready);
\* a row without mail_key raises ValueError, which ends the request with
\* nothing written
nfr_insert_mail(r) ==
  /\ reqs[r].pc = "mail_inserting"
  /\ IF mail_key_missing(reqs[r].rows)
     THEN /\ EndReq(r)
          /\ UNCHANGED <<runs, staging_mail>>
     ELSE /\ staging_mail' = insert_normalized_mail(staging_mail, r, reqs[r].uid, reqs[r].rows)
          /\ runs' = Set([runs EXCEPT ![r].mail_ready = TRUE], r, "mail_ready")
          /\ SetReq(r, [reqs[r] EXCEPT !.pc = "mail_ready", !.rows = <<>>])
  /\ UNCHANGED <<mappings, resp, mt, raw_mail, raw_crm, staging_crm, matches, workers, nstarts>>

\* the mapped CRM rows with their parsed date and job_index; rows without a
\* job_index are skipped
RECURSIVE crm_rows_for_db(_)
crm_rows_for_db(rows) ==
  IF rows = <<>> THEN <<>>
  ELSE LET x  == Head(rows)
           d  == to_date_or_none(x.job_date)
           ji == build_job_index(x.source_id, build_full_address(x.address1), d)
       IN (IF ji = NULL THEN <<>>
           ELSE << [job_index |-> ji, address1 |-> x.address1,
                    job_date |-> d] >>)
          \o crm_rows_for_db(Tail(rows))

\* _set(normalizing_crm), then normalize_from_raw(crm) up to the insert
nfr_read_crm(r) ==
  /\ reqs[r].pc = "mail_ready"
  /\ IF raw_crm[r] = <<>>
     THEN /\ runs' = Fail(runs, r, "CRM normalization produced 0 rows")
          /\ EndReq(r)
     ELSE /\ runs' = Set(runs, r, "crm_inserting")
          /\ SetReq(r, [reqs[r] EXCEPT !.pc = "crm_inserting",
                                       !.rows = crm_rows_for_db(
                                         apply_mapping(raw_crm[r],
                                           get_mapping(r, "crm"), ALIAS_CRM))])
  /\ UNCHANGED <<mappings, resp, mt, raw_mail, raw_crm, staging_mail, staging_crm, matches, workers, nstarts>>

\* insert_normalized_crm (returns 0 on an empty list) + update_counts, then
\* _set(crm_ready)
nfr_insert_crm(r) ==
  /\ reqs[r].pc = "crm_inserting"
  /\ staging_crm' = IF reqs[r].rows = <<>> THEN staging_crm
                    ELSE insert_normalized_crm(staging_crm, r, reqs[r].uid, reqs[r].rows)
  /\ runs' = Set([runs EXCEPT ![r].crm_ready = TRUE], r, "crm_ready")
  /\ SetReq(r, [reqs[r] EXCEPT !.pc = "crm_ready", !.rows = <<>>,
                               !.n = Len(dedup_crm(reqs[r].rows, {}))])
  /\ UNCHANGED <<mappings, resp, mt, raw_mail, raw_crm, staging_mail, matches, workers, nstarts>>

\* start_pipeline after normalize_from_raw(crm): crm_n <= 0 and the
\* pair_ready gate, each failing the run
sp_check_ready(r) ==
  /\ reqs[r].pc = "crm_ready"
  /\ IF reqs[r].n <= 0
     THEN /\ runs' = Fail(runs, r, "CRM CSV appears empty or invalid after normalization.")
          /\ EndReq(r)
     ELSE IF ~ pair_ready(r)
     THEN /\ runs' = Fail(runs, r, "Staging not ready after normalization (internal consistency error).")
          /\ EndReq(r)
     ELSE /\ SetReq(r, [reqs[r] EXCEPT !.pc = "start_matching", !.n = 0])
          /\ UNCHANGED runs
  /\ UNCHANGED <<mappings, resp, mt, raw_mail, raw_crm, staging_mail, staging_crm, matches, workers, nstarts>>

\* start_matching: the status read and the pair_ready read; either can make
\* the call return without launching
sm_guard(r) ==
  /\ reqs[r].pc = "start_matching"
  /\ IF runs[r].status \in {"matching", "aggregating", "done", "failed"}
        \/ ~ pair_ready(r)
     THEN EndReq(r)
     ELSE SetReq(r, [reqs[r] EXCEPT !.pc = "claim"])
  /\ UNCHANGED <<mappings, resp, mt, runs, raw_mail, raw_crm, staging_mail, staging_crm, matches, workers, nstarts>>

NewWorker(r) == [run |-> r, pc |-> "load", stop |-> FALSE,
                 mail |-> <<>>, crm |-> <<>>, out |-> {}, kpi |-> 0]

\* start_matching: update_step(matching, 90) and Thread(...).start()
sm_claim_spawn(r) ==
  /\ reqs[r].pc = "claim"
  /\ Len(workers) < MaxWorkers
  /\ runs' = update_step(runs, r, "matching", 90, STEP["matching"].msg)
  /\ workers' = Append(workers, NewWorker(r))
  /\ EndReq(r)
  /\ UNCHANGED <<mappings, resp, mt, raw_mail, raw_crm, staging_mail, staging_crm, matches, nstarts>>

\* the steps of a start request that has passed mark_start
PipelineRun(r) ==
  \/ nfr_read_mail(r)
  \/ nfr_insert_mail(r)
  \/ nfr_read_crm(r)
  \/ nfr_insert_crm(r)
  \/ sp_check_ready(r)
  \/ sm_guard(r)
  \/ sm_claim_spawn(r)

Pipeline(r) ==
  \/ \E u \in Users : sp_mark_start(r, u)
  \/ PipelineRun(r)

\* ------------------------------------------------ dao/staging_dao.py
\* a Python value in a date field: a datetime.date (day d), a str (the ISO
\* text of day d, the empty text for NoDate) or None
PyDate(d) == [ty |-> IF d = NoDate THEN "none" ELSE "date", d |-> d]
PyStr(d)  == [ty |-> "str", d |-> d]

RECURSIVE order_by_line_no(_)
order_by_line_no(rows) ==
  IF rows = {} THEN <<>>
  ELSE LET x == CHOOSE y \in rows : \A z \in rows : y.line_no <= z.line_no
       IN <<x>> \o order_by_line_no(rows \ {x})

\* SELECT .. WHERE run_id = :rid [AND user_id = :uid] ORDER BY line_no; a
\* Date column comes back as a datetime.date
fetch_normalized_mail_rows(r, u) ==
  order_by_line_no(
    {[line_no |-> m.line_no, address1 |-> m.address1,
      sent_date |-> PyDate(m.sent_date)] :
       m \in {x \in staging_mail : x.run_id = r /\ (u = NULL \/ x.user_id = u)}})

fetch_normalized_crm_rows(r, u) ==
  order_by_line_no(
    {[line_no |-> c.line_no, job_index |-> c.job_index, address1 |-> c.address1,
      job_date |-> PyDate(c.job_date)] :
       c \in {x \in staging_crm : x.run_id = r /\ (u = NULL \/ x.user_id = u)}})

\* ------------------------------------------------ services/matching.py
MATCH_MIN_SCORE == 0

\* TOPK_RECHECK is unset by default
LIMIT_TOPK == 1

\* datetime.date.min and datetime.date.max on the day scale of the model
DateMin == -1
DateMax == 32

\* parse_date_any: a str is parsed, every other value gives None
parse_date_any(v) == IF v.ty = "str" THEN v.d ELSE NoDate

\* int(fuzz.token_set_ratio) on the normalized addresses of the input sets:
\* 100 for equal token sets, 0 against the empty string, and for two
\* addresses that differ in one token 200 * LCS / (sum of the lengths) of
\* "12 street <token>", truncated: main/maine 28/29, main/mainly 28/30,
\* maine/mainly 28/31, maple/maine 26/30, maple/mainly 26/31, else 24/29
token_set_ratio(a, b) ==
  LET pair == {a, b}
  IN IF a = "" \/ b = "" THEN 0
     ELSE IF a = b THEN 100
     ELSE IF pair = {"12 main street", "12 maine street"} THEN 96
     ELSE IF pair = {"12 main street", "12 mainly street"} THEN 93
     ELSE IF pair = {"12 maine street", "12 mainly street"} THEN 90
     ELSE IF pair = {"12 maple street", "12 maine street"} THEN 86
     ELSE IF pair = {"12 maple street", "12 mainly street"} THEN 83
     ELSE 82

Min(a, b) == IF a <= b THEN a ELSE b

\* the same additions without the caps
bonus_adjust_uncapped(score_base, zip, city, state) ==
  score_base + (IF zip THEN 5 ELSE 0) + (IF city THEN 2 ELSE 0)
             + (IF state THEN 2 ELSE 0)

\* _bonus_adjust: +5 when both rows have the same zip5, +2 for the same city,
\* +2 for the same state, each addition capped at 100
bonus_adjust_flags(score_base, zip, city, state) ==
  LET s1 == IF zip   THEN Min(100, score_base + 5) ELSE score_base
      s2 == IF city  THEN Min(100, s1 + 2) ELSE s1
      s3 == IF state THEN Min(100, s2 + 2) ELSE s2
  IN s3

\* _bonus_adjust on two rows whose zip, city and state are equal and not
\* empty (NULL columns are: str(None) is the same text on both sides)
bonus_adjust(score_base) == bonus_adjust_flags(score_base, TRUE, TRUE, TRUE)

\* _bonus_adjust(score_base, mail_row, crm_row)
bonus_adjust_rows(score_base, m, c) ==
  bonus_adjust_flags(score_base,
                     m.zip5 # "" /\ c.zip5 # "" /\ m.zip5 = c.zip5,
                     m.city_l # "" /\ c.city_l # "" /\ m.city_l = c.city_l,
                     m.state_l # "" /\ c.state_l # "" /\ m.state_l = c.state_l)

\* FAST_FILTERS is on unless the environment says "0"
FAST_FILTERS == TRUE

\* str(row.get(name, "")) for a locality column: a row without the column
\* was staged with NULL, which str() turns into the text None
locality(row, name) ==
  IF name \in DOMAIN row THEN row[name]
  ELSE IF name = "zip" THEN "None" ELSE "none"

\* _prep_mail_rows / _prep_crm_rows: _canonize_row keeps the canonical keys
\* (job_index is not one), then block key, parsed date and match string
prep_mail_rows(rows) ==
  [i \in 1..Len(rows) |->
     [line_no  |-> rows[i].line_no, address1 |-> rows[i].address1,
      blk      |-> block_key(rows[i].address1),
      date     |-> parse_date_any(rows[i].sent_date),
      addr_str |-> normalize_address1(rows[i].address1),
      zip5     |-> locality(rows[i], "zip"),
      city_l   |-> locality(rows[i], "city"),
      state_l  |-> locality(rows[i], "state")]]

prep_crm_rows(rows) ==
  [i \in 1..Len(rows) |->
     [line_no  |-> rows[i].line_no, address1 |-> rows[i].address1,
      job_date |-> rows[i].job_date,
      blk      |-> block_key(rows[i].address1),
      date     |-> parse_date_any(rows[i].job_date),
      addr_str |-> normalize_address1(rows[i].address1),
      zip5     |-> locality(rows[i], "zip"),
      city_l   |-> locality(rows[i], "city"),
      state_l  |-> locality(rows[i], "state")]]

RECURSIVE SubSeqOf(_, _)
SubSeqOf(seq, idx) ==
  IF idx = {} THEN <<>>
  ELSE LET i == CHOOSE j \in idx : \A k \in idx : j <= k
       IN <<seq[i]>> \o SubSeqOf(seq, idx \ {i})

\* process.extractOne: the index of the first choice with the highest score
extractOne(sc) ==
  CHOOSE i \in 1..Len(sc) :
    /\ \A j \in 1..Len(sc) : sc[j] <= sc[i]
    /\ \A j \in 1..(i - 1) : sc[j] < sc[i]

\* process.extract(limit = k): indices by score, highest first, the earlier
\* choice first among equal scores
RECURSIVE extract(_, _, _)
extract(sc, idx, k) ==
  IF k = 0 \/ idx = {} THEN <<>>
  ELSE LET b == CHOOSE i \in idx :
                  \A j \in idx : sc[j] < sc[i] \/ (sc[j] = sc[i] /\ i <= j)
       IN <<b>> \o extract(sc, idx \ {b}, k - 1)

\* the top-K loop: a candidate replaces the best so far on a higher adjusted
\* score, or on an equal one when its date (date.min when it has none) is
\* before the date of the best so far (date.max when that has none)
RECURSIVE topk_best(_, _, _, _)
topk_best(cand, topk, best, best_score) ==
  IF topk = <<>> THEN [best |-> best, best_score |-> best_score]
  ELSE LET idx == Head(topk)
           m   == cand[idx]
           adj == m.adj
           m_date_cmp    == IF m.date # NoDate THEN m.date ELSE DateMin
           best_date_cmp == IF best # 0 /\ cand[best].date # NoDate
                            THEN cand[best].date ELSE DateMax
       IN IF adj > best_score \/ (adj = best_score /\ m_date_cmp < best_date_cmp)
          THEN topk_best(cand, Tail(topk), idx, adj)
          ELSE topk_best(cand, Tail(topk), best, best_score)

\* the mail rows of the block of a CRM row: those of its zip when it has
\* one and the block holds any, else all of the block
block_candidates(c, mail) ==
  LET blk   == SubSeqOf(mail, {i \in 1..Len(mail) : mail[i].blk = c.blk})
      tight == SubSeqOf(blk, {i \in 1..Len(blk) : blk[i].zip5 = c.zip5})
  IN IF FAST_FILTERS /\ c.zip5 # "" /\ tight # <<>> THEN tight ELSE blk

\* the prefilters: a row is dropped when both zips are known and differ, or
\* when city and state are known on both sides and both differ; the result
\* is used only when it keeps a row
fast_filters(c, cand) ==
  LET keep(m) ==
        /\ ~ (c.zip5 # "" /\ m.zip5 # "" /\ c.zip5 # m.zip5)
        /\ ~ ( /\ c.city_l # "" /\ c.state_l # ""
               /\ m.city_l # "" /\ m.state_l # ""
               /\ c.city_l # m.city_l /\ c.state_l # m.state_l )
      cand_fast == SubSeqOf(cand, {i \in 1..Len(cand) : keep(cand[i])})
  IN IF FAST_FILTERS /\ cand_fast # <<>> THEN cand_fast ELSE cand

\* the date window: when the CRM row has a parsed date, the mail rows
\* without a date or dated on or before it
date_window(c, candidates) ==
  IF c.date # NoDate
  THEN SubSeqOf(candidates,
         {i \in 1..Len(candidates) :
            candidates[i].date = NoDate \/ candidates[i].date <= c.date})
  ELSE candidates

\* the base score and the adjusted score of every candidate left by the
\* filters
scored_candidates(c, fast) ==
  [i \in 1..Len(fast) |->
     [line_no |-> fast[i].line_no, date |-> fast[i].date,
      score_base |-> token_set_ratio(c.addr_str, fast[i].addr_str),
      adj |-> bonus_adjust_rows(token_set_ratio(c.addr_str, fast[i].addr_str),
                                fast[i], c)]]

\* the selection for one CRM row: extractOne on the base scores with the
\* bonuses applied to the row it returns, or the top-K loop
pick_best(cand, sc, topk) ==
  IF topk <= 1
  THEN [best |-> extractOne(sc), best_score |-> cand[extractOne(sc)].adj]
  ELSE topk_best(cand, extract(sc, 1..Len(cand), topk), 0, -1)

\* the row of a CRM row and its best candidate, emitted when the score
\* reaches MATCH_MIN_SCORE
match_row(c, cand, pick) ==
  [emit |-> pick.best_score >= MATCH_MIN_SCORE,
   crm_line_no |-> c.line_no,
   crm_job_date |-> c.job_date,
   mail_line_no |-> cand[pick.best].line_no,
   mail_date |-> cand[pick.best].date,
   mail_dates_in_window |->
     {cand[i].date : i \in {j \in 1..Len(cand) : cand[j].date # NoDate}},
   confidence_percent |-> pick.best_score]

match_scored(c, cand, topk) ==
  match_row(c, cand,
            pick_best(cand, [i \in 1..Len(cand) |-> cand[i].score_base], topk))

match_window(c, window, topk) ==
  IF window = <<>>
  THEN [emit |-> FALSE, crm_line_no |-> c.line_no,
        reason |-> "no_date_window_candidates"]
  ELSE match_scored(c, scored_candidates(c, fast_filters(c, window)), topk)

match_candidates(c, candidates, topk) ==
  IF candidates = <<>>
  THEN [emit |-> FALSE, crm_line_no |-> c.line_no,
        reason |-> "no_block_candidates"]
  ELSE match_window(c, date_window(c, candidates), topk)

\* one CRM row of run_matching: candidates of the block, the date window,
\* the prefilters, then the best candidate
match_one(c, mail, topk) ==
  match_candidates(c, block_candidates(c, mail), topk)

match_all(mail_rows, crm_rows, topk) ==
  LET mail == prep_mail_rows(mail_rows)
      crm  == prep_crm_rows(crm_rows)
  IN [i \in 1..Len(crm) |-> match_one(crm[i], mail, topk)]

\* run_matching: the emitted rows, in CRM order
run_matching(mail_rows, crm_rows, topk) ==
  LET all == match_all(mail_rows, crm_rows, topk)
  IN SubSeqOf(all, {i \in 1..Len(all) : all[i].emit})

\* the rows run_matching appends to excluded_rows_collect
excluded_rows_collect(mail_rows, crm_rows, topk) ==
  LET all == match_all(mail_rows, crm_rows, topk)
  IN SubSeqOf(all, {i \in 1..Len(all) : "reason" \in DOMAIN all[i]})

Range(seq) == {seq[i] : i \in 1..Len(seq)}

\* the scoring of one winning candidate in run_matching: int(base_score),
\* the bonuses, then the row with confidence_percent = int(best_score),
\* emitted when best_score >= MATCH_MIN_SCORE
call_bonus_adjust ==
  /\ ~ mt.called
  /\ LET adj == bonus_adjust_flags(mt.score_base, mt.zip, mt.city, mt.state)
     IN mt' = [mt EXCEPT !.called = TRUE,
                         !.out = <<[emit |-> adj >= MATCH_MIN_SCORE,
                                    confidence_percent |-> adj]>>]
  /\ UNCHANGED core
  /\ UNCHANGED <<mappings, resp>>

\* run_matching called on rows whose dates are text, with TOPK_RECHECK = topk
call_run_matching ==
  /\ ~ mt.called
  /\ mt' = [mt EXCEPT !.called = TRUE,
                      !.out = run_matching(mt.mail, mt.crm, mt.topk)]
  /\ UNCHANGED core
  /\ UNCHANGED <<mappings, resp>>

\* matches_dao.delete_for_run
delete_for_run(tbl, r, u) == {m \in tbl : ~ (m.run_id = r /\ m.user_id = u)}

\* matches_dao._ensure_defaults: a missing job_index becomes None
ensure_defaults(row) == [crm_line_no |-> row.crm_line_no, job_index |-> NULL]

NextId(tbl) == IF tbl = {} THEN 1 ELSE 1 + CHOOSE n \in {m.id : m \in tbl} :
                                          \A k \in {m.id : m \in tbl} : k <= n

\* one INSERT .. ON CONFLICT (user_id, job_index) DO UPDATE; a NULL job_index
\* conflicts with nothing
insert_match_row(tbl, r, u, row) ==
  LET d   == ensure_defaults(row)
      old == {m \in tbl : m.user_id = u /\ d.job_index # NULL
                          /\ m.job_index = d.job_index}
  IN IF old = {}
     THEN tbl \cup {[id |-> NextId(tbl), run_id |-> r, user_id |-> u,
                     job_index |-> d.job_index, crm_line_no |-> d.crm_line_no]}
     ELSE (tbl \ old) \cup
          {[m EXCEPT !.run_id = r, !.crm_line_no = d.crm_line_no] : m \in old}

\* matches_dao.bulk_insert, rows in crm_line_no order
RECURSIVE bulk_insert(_, _, _, _)
bulk_insert(tbl, r, u, rows) ==
  IF rows = {} THEN tbl
  ELSE LET x == CHOOSE y \in rows : \A z \in rows : y.crm_line_no <= z.crm_line_no
       IN bulk_insert(insert_match_row(tbl, r, u, x), r, u, rows \ {x})

\* ------------------------------------------- pipeline._match_and_aggregate_async
SetW(i, rec) == workers' = [workers EXCEPT ![i] = rec]
WIds == 1..Len(workers)
Owner(i) == runs[workers[i].run].user_id

WTick(i, from, to, substep, p) ==
  /\ workers[i].pc = from
  /\ runs' = Tick(runs, workers[i].run, substep, p)
  /\ SetW(i, [workers[i] EXCEPT !.pc = to])
  /\ UNCHANGED <<mappings, resp, mt, raw_mail, raw_crm, staging_mail, staging_crm, matches, reqs, nstarts>>

w_tick_load(i) == WTick(i, "load", "match_start", "[load] Loading normalized rows", 91)

\* the row counts, then the ticks fetch_done (92) and match_start (93)
w_tick_match_start(i) ==
  WTick(i, "match_start", "fetch_mail", "[match_start] Running matcher", 93)

w_fetch_mail(i) ==
  /\ workers[i].pc = "fetch_mail"
  /\ SetW(i, [workers[i] EXCEPT !.pc = "fetch_crm",
                !.mail = fetch_normalized_mail_rows(workers[i].run, Owner(i))])
  /\ UNCHANGED <<mappings, resp, mt, runs, raw_mail, raw_crm, staging_mail, staging_crm, matches, reqs, nstarts>>

\* the CRM fetch; with an empty side nothing is persisted, else
\* persist_matches_for_run starts by running the matcher
w_fetch_crm(i) ==
  /\ workers[i].pc = "fetch_crm"
  /\ LET crm == fetch_normalized_crm_rows(workers[i].run, Owner(i))
     IN IF workers[i].mail = <<>> \/ crm = <<>>
        THEN SetW(i, [workers[i] EXCEPT !.pc = "kpi", !.crm = crm])
        ELSE SetW(i, [workers[i] EXCEPT !.pc = "delete", !.crm = crm,
                        !.out = Range(run_matching(workers[i].mail, crm,
                                                   LIMIT_TOPK))])
  /\ UNCHANGED <<mappings, resp, mt, runs, raw_mail, raw_crm, staging_mail, staging_crm, matches, reqs, nstarts>>

\* persist_matches_for_run: delete_for_run commits on its own
w_delete_for_run(i) ==
  /\ workers[i].pc = "delete"
  /\ matches' = delete_for_run(matches, workers[i].run, Owner(i))
  /\ SetW(i, [workers[i] EXCEPT !.pc = "insert"])
  /\ UNCHANGED <<mappings, resp, mt, runs, raw_mail, raw_crm, staging_mail, staging_crm, reqs, nstarts>>

w_bulk_insert(i) ==
  /\ workers[i].pc = "insert"
  /\ matches' = bulk_insert(matches, workers[i].run, Owner(i), workers[i].out)
  /\ SetW(i, [workers[i] EXCEPT !.pc = "kpi"])
  /\ UNCHANGED <<mappings, resp, mt, runs, raw_mail, raw_crm, staging_mail, staging_crm, reqs, nstarts>>

\* the ticks match_done (96) and kpi (96)
w_tick_kpi(i) == WTick(i, "kpi", "build", "[kpi] Computing KPIs", 96)

\* ------------------------------------------------ services/summary.py
\* _parse_mm_dd_yy: None for a value that is not a str; a str is read as
\* %m-%d-%y or %m-%d-%Y, which the ISO text of a day (PyStr) is not
parse_mm_dd_yy(v) == IF v.ty = "mdy" THEN v.d ELSE NoDate

\* _ym_key: all days of the model are days of January 2024
ym_key(d) == IF d = NoDate THEN "" ELSE "2024-01"

\* the keys of mail_by_month and jobs_by_month (the counts are not followed)
month_keys(rows, field) ==
  {ym_key(parse_date_any(rows[i][field])) : i \in 1..Len(rows)} \ {""}

\* matches_by_month: the matches counted under the month of their job date
matches_by_month(ms) ==
  [ym \in {ym_key(parse_mm_dd_yy(ms[i].crm_job_date)) : i \in 1..Len(ms)} \ {""}
     |-> Cardinality({i \in 1..Len(ms) :
                        ym_key(parse_mm_dd_yy(ms[i].crm_job_date)) = ym})]

\* sum of a series given as month -> count
RECURSIVE SumSeries(_)
SumSeries(f) ==
  IF DOMAIN f = {} THEN 0
  ELSE LET ym == CHOOSE x \in DOMAIN f : TRUE
       IN f[ym] + SumSeries([x \in DOMAIN f \ {ym} |-> f[x]])

\* summary.build_payload(run_id): fetches the staging rows of the run again
\* (no user filter) and runs the matcher again; kpis.matches and the months
\* and matches series of graph are kept
build_payload(r) ==
  LET mail_rows == fetch_normalized_mail_rows(r, NULL)
      crm_rows  == fetch_normalized_crm_rows(r, NULL)
      ms        == run_matching(mail_rows, crm_rows, LIMIT_TOPK)
      mbm       == matches_by_month(ms)
      all_months == month_keys(mail_rows, "sent_date")
                    \cup month_keys(crm_rows, "job_date") \cup DOMAIN mbm
  IN [kpis  |-> [matches |-> Len(ms)],
      graph |-> [months  |-> all_months,
                 matches |-> [ym \in all_months |->
                                IF ym \in DOMAIN mbm THEN mbm[ym] ELSE 0]]]

w_build_payload(i) ==
  /\ workers[i].pc = "build"
  /\ SetW(i, [workers[i] EXCEPT !.pc = "aggregating",
                !.kpi = build_payload(workers[i].run).kpis.matches])
  /\ UNCHANGED <<mappings, resp, mt, runs, raw_mail, raw_crm, staging_mail, staging_crm, matches, reqs, nstarts>>

w_set_aggregating(i) ==
  /\ workers[i].pc = "aggregating"
  /\ runs' = Set(runs, workers[i].run, "aggregating")
  /\ SetW(i, [workers[i] EXCEPT !.pc = "finalize"])
  /\ UNCHANGED <<mappings, resp, mt, raw_mail, raw_crm, staging_mail, staging_crm, matches, reqs, nstarts>>

\* the tick finalize (99), committed by update_step like every tick
w_tick_finalize(i) ==
  WTick(i, "finalize", "set_done", "[finalize] Finalizing payload", 99)

\* _set(done)
w_set_done(i) ==
  /\ workers[i].pc = "set_done"
  /\ runs' = Set(runs, workers[i].run, "done")
  /\ SetW(i, [workers[i] EXCEPT !.pc = "finally"])
  /\ UNCHANGED <<mappings, resp, mt, raw_mail, raw_crm, staging_mail, staging_crm, matches, reqs, nstarts>>

TryPcs == {"load", "match_start", "fetch_mail", "fetch_crm", "delete",
           "insert", "kpi", "build", "aggregating", "finalize", "set_done"}

\* except Exception: any statement of the try block may raise; the handler
\* records the failure
w_except(i) ==
  /\ workers[i].pc \in TryPcs
  /\ runs' = update_step(runs, workers[i].run, "failed", 100, "worker error")
  /\ SetW(i, [workers[i] EXCEPT !.pc = "finally"])
  /\ UNCHANGED <<mappings, resp, mt, raw_mail, raw_crm, staging_mail, staging_crm, matches, reqs, nstarts>>

\* finally: stop.set()
w_finally(i) ==
  /\ workers[i].pc = "finally"
  /\ SetW(i, [workers[i] EXCEPT !.pc = "exit", !.stop = TRUE])
  /\ UNCHANGED <<mappings, resp, mt, runs, raw_mail, raw_crm, staging_mail, staging_crm, matches, reqs, nstarts>>

\* _heartbeat: stop.wait(5) timed out, so the thread ticks
heartbeat(i) ==
  /\ ~ workers[i].stop
  /\ runs' = Tick(runs, workers[i].run, "[heartbeat] Working", 92)
  /\ UNCHANGED <<mappings, resp, mt, raw_mail, raw_crm, staging_mail, staging_crm, matches, reqs, workers, nstarts>>

\* the statements of the matcher thread
WorkerRun(i) ==
  \/ w_tick_load(i)
  \/ w_tick_match_start(i)
  \/ w_fetch_mail(i)
  \/ w_fetch_crm(i)
  \/ w_delete_for_run(i)
  \/ w_bulk_insert(i)
  \/ w_tick_kpi(i)
  \/ w_build_payload(i)
  \/ w_set_aggregating(i)
  \/ w_tick_finalize(i)
  \/ w_set_done(i)
  \/ w_except(i)
  \/ w_finally(i)

Worker(i) ==
  \/ WorkerRun(i)
  \/ heartbeat(i)

\* ------------------------------------------------ services/result.py
\* the same checks with the status examined before the owner
get_result_status_first(r, u) ==
  IF r \notin RunIds THEN [err |-> "NotFound", body |-> "run not found"]
  ELSE IF runs[r].status = "failed" THEN [err |-> "Conflict", body |-> "failed"]
  ELSE IF runs[r].status # "done" THEN [err |-> "Conflict", body |-> "not_ready"]
  ELSE IF runs[r].user_id # u THEN [err |-> "Unauthorized", body |-> "forbidden"]
  ELSE [err |-> NULL, body |-> build_payload(r)]

\* get_result: the run must exist, belong to the caller and be done
get_result(r, u) ==
  IF r \notin RunIds THEN [err |-> "NotFound", body |-> "run not found"]
  ELSE IF runs[r].user_id # u THEN [err |-> "Unauthorized", body |-> "forbidden"]
  ELSE IF runs[r].status = "failed" THEN [err |-> "Conflict", body |-> "failed"]
  ELSE IF runs[r].status # "done" THEN [err |-> "Conflict", body |-> "not_ready"]
  ELSE [err |-> NULL, body |-> build_payload(r)]

\* ------------------------------------------------ blueprints/api.py
\* POST /runs when create_or_get_active_run finds a run to reuse: its id is
\* returned and nothing is written
create_run_reuse(u) ==
  /\ existing_run(u) # 0
  /\ resp' = [op |-> "create", uid |-> u, run |-> existing_run(u),
              code |-> 201, body |-> NULL]
  /\ UNCHANGED core
  /\ UNCHANGED <<mappings, mt>>

\* GET /runs/<id>/result
run_result(r, u) ==
  /\ LET res == get_result(r, u)
     IN resp' = [op |-> "result", uid |-> u, run |-> r,
                 code |-> CASE res.err = "NotFound"     -> 404
                            [] res.err = "Unauthorized" -> 403
                            [] res.err = "Conflict"     -> 409
                            [] OTHER                    -> 200,
                 body |-> res.body]
  /\ UNCHANGED core
  /\ UNCHANGED <<mappings, mt>>

\* GET /runs/<id>/status: the caller's id is read and not used
run_status(r, u) ==
  /\ resp' = [op |-> "status", uid |-> u, run |-> r, code |-> 200,
              body |-> get_status(r)]
  /\ UNCHANGED core
  /\ UNCHANGED <<mappings, mt>>

\* POST /runs/<id>/start with a required field missing: 409 with the missing
\* fields per source, start_pipeline is not called
start_run_refused(r, u) ==
  /\ DOMAIN check_mapping_readiness(r) # {}
  /\ resp' = [op |-> "start", uid |-> u, run |-> r, code |-> 409,
              body |-> check_mapping_readiness(r)]
  /\ UNCHANGED core
  /\ UNCHANGED <<mappings, mt>>

\* ------------------------------------------------------------- properties

\* C1: a run whose status is done or failed keeps that status in every
\* later state
C1_TerminalAbsorbing ==
  [][\A r \in RunIds :
       runs[r].status \in Terminal => runs'[r].status = runs[r].status]_vars

\* C2: at most one matcher thread is ever launched for a run
C2_OneWorkerPerRun ==
  \A i, j \in WIds : workers[i].run = workers[j].run => i = j

C4_FailureSticks ==
  [][\A r \in RunIds :
       (runs[r].step = "failed" /\ runs[r].message = "worker error")
       => /\ runs'[r].status = "failed"
          /\ runs'[r].step = "failed"
          /\ runs'[r].pct = 100
          /\ runs'[r].message = "worker error"]_vars

\* C5: a matcher thread is launched for a run only when mail and CRM were
\* normalized for it and pair_ready holds for it at the moment of the launch
C5_LaunchOnlyWhenReady ==
  [][Len(workers') > Len(workers) =>
       LET r == workers'[Len(workers')].run
       IN runs[r].mail_ready /\ runs[r].crm_ready /\ pair_ready(r)]_vars

\* C6: between a matcher thread's fetch and the end of its KPI computation
\* the staging rows of its run are the rows it fetched, and the KPI match
\* count equals the number of rows it computed for persisting
C6_StableStagingWhileMatching ==
  \A i \in WIds :
    /\ workers[i].pc \in {"delete", "insert", "kpi", "build"}
       => /\ fetch_normalized_mail_rows(workers[i].run, Owner(i)) = workers[i].mail
          /\ fetch_normalized_crm_rows(workers[i].run, Owner(i)) = workers[i].crm
    /\ workers[i].pc \in {"aggregating", "finalize", "set_done"}
       => workers[i].kpi = Cardinality(workers[i].out)

\* C7: staging_mail holds at most one row per (user_id, mail_key) and
\* staging_crm at most one row per (user_id, job_index)
C7_StagingKeysUnique ==
  /\ \A a, b \in staging_mail :
       (a.user_id = b.user_id /\ a.mail_key = b.mail_key) => a = b
  /\ \A a, b \in staging_crm :
       (a.user_id = b.user_id /\ a.job_index = b.job_index) => a = b

\* both keys of run 1 were staged first and now belong to run 2: the second
\* ingest refreshed the rows in place
C7_Witness ==
  /\ Len(runs) = 2
  /\ runs[1].mail_ready /\ runs[1].crm_ready
  /\ \E m \in staging_mail : m.run_id = 2 /\ m.line_no = 1
  /\ \E c \in staging_crm : c.run_id = 2 /\ c.line_no = 1

\* C8: when a second run with the content of a finished first run persists
\* its matches, the number of match rows of the user stays what it was
C8_RerunKeepsMatchCount ==
  [][\A i \in WIds :
       ( /\ workers[i].run = 2
         /\ workers[i].pc = "insert" /\ workers'[i].pc = "kpi"
         /\ runs[1].status = "done"
         /\ raw_mail[1] = raw_mail[2] /\ raw_crm[1] = raw_crm[2]
         /\ \A j \in WIds : workers[j].run = 1 => workers[j].pc = "exit" )
       => Cardinality({m \in matches' : m.user_id = Owner(i)})
            = Cardinality({m \in matches : m.user_id = Owner(i)})]_vars

\* C9: the match rows of one user for one CRM job (the staging_crm line the
\* row was computed from) never belong to two runs: persisting a new run
\* replaces the rows of the jobs it matches again
C9_PersistReplacesPriorRows ==
  \A a, b \in matches :
    (a.user_id = b.user_id /\ a.crm_line_no = b.crm_line_no)
    => a.run_id = b.run_id

\* C10: every match row has a job_index, and it is the job_index of a
\* staging_crm row of the same user
C10_MatchJobIndexTraceable ==
  \A m \in matches :
    /\ m.job_index # NULL
    /\ \E c \in staging_crm : c.user_id = m.user_id /\ c.job_index = m.job_index

\* C16: the status snapshot tracks the phase: once a run has entered a phase
\* its status is the phase name and, outside the matcher's sub-steps, its pct
\* is the anchor of the phase; the status is queued only before the start
C16_StatusTracksPhase ==
  \A r \in RunIds :
    /\ runs[r].step # NULL => get_status(r).status = runs[r].step
    /\ runs[r].step \in DOMAIN STEP \ {"matching"}
       => get_status(r).pct = STEP[runs[r].step].pct
    /\ get_status(r).status = "queued" => runs[r].step = NULL

\* C13: when the normalization of a source ends a start request because it
\* stored no row, the run is failed after that step with a message naming
\* the source, and the step launches no worker (the request being over, no
\* later phase runs)
C13_ZeroRowsFailRun ==
  [][\A r \in RunIds :
       /\ (reqs[r].pc \in {"starting", "mail_inserting"} /\ reqs'[r].pc = "idle")
          => /\ runs'[r].status = "failed"
             /\ runs'[r].message = "MAIL normalization produced 0 rows"
             /\ workers' = workers
       /\ (reqs[r].pc \in {"mail_ready", "crm_inserting"} /\ reqs'[r].pc = "idle")
          => /\ runs'[r].status = "failed"
             /\ runs'[r].message = "CRM normalization produced 0 rows"
             /\ workers' = workers
       /\ (reqs[r].pc = "crm_ready" /\ reqs[r].n <= 0 /\ reqs'[r].pc = "idle")
          => /\ runs'[r].status = "failed"
             /\ runs'[r].message
                  = "CRM CSV appears empty or invalid after normalization."
             /\ workers' = workers]_vars

\* C15: once the stop event of a matcher thread is set with its run not
\* completed, the thread does no further work and the run is failed with the
\* message "cancelled"
C15_StopCancelsRun ==
  \A i \in WIds :
    (workers[i].stop /\ runs[workers[i].run].status # "done")
    => /\ workers[i].pc = "exit"
       /\ runs[workers[i].run].status = "failed"
       /\ runs[workers[i].run].message = "cancelled"

C18_OneActiveRunPerUser ==
  [][\A u \in ApiUsers :
       LET act == {q \in RunIds : runs[q].user_id = u
                                  /\ runs[q].status \notin Terminal}
       IN /\ create_run_reuse(u)
             => /\ resp'.run \in act
                /\ \A q \in act : q <= resp'.run
                /\ runs' = runs
          /\ create_or_get_active_run(u)
             => /\ act = {}
                /\ Len(runs') = Len(runs) + 1
                /\ runs'[Len(runs')].user_id = u
                /\ runs'[Len(runs')].status = "queued"
          /\ \A a, b \in RunIds :
                ( /\ runs[a].user_id = u /\ runs[b].user_id = u
                  /\ runs[a].status \notin Terminal
                  /\ runs[b].status \notin Terminal ) => a = b]_vars

\* a create request was answered with the caller's run 1 while the later
\* run 2, of the other account, is not terminal either
C18_Witness ==
  /\ resp.op = "create" /\ resp.run = 1
  /\ Len(runs) = 2
  /\ runs[1].user_id = resp.uid
  /\ runs[2].user_id # resp.uid
  /\ runs[2].status \notin Terminal


\* C12: a start request on a run for which some required canonical field of
\* a source is neither mapped by the saved mapping to a header of the raw
\* file nor present in the raw file under its own name or an alias is never
\* accepted; its refusal is a 409 whose body lists exactly those fields per
\* source, and it leaves the run row, the staging tables, the matches and the
\* set of matcher threads as they were
C12_StartRefusedWhileFieldsMissing ==
  [][\A r \in RunIds, u \in ApiUsers :
       LET hdrs(src) == IF src = "mail" THEN get_raw_headers(r, "mail")
                                        ELSE get_raw_headers(r, "crm")
           req(src)  == IF src = "mail" THEN REQUIRED_MAIL ELSE REQUIRED_CRM
           ali(src)  == IF src = "mail" THEN ALIAS_MAIL ELSE ALIAS_CRM
           maps(src) == {m \in mappings : m.run_id = r /\ m.source = src}
           lacks(src) ==
             {k \in req(src) :
                /\ \A m \in maps(src) :
                      k \in DOMAIN m.mapping => m.mapping[k] \notin hdrs(src)
                /\ k \notin hdrs(src)
                /\ k \in DOMAIN ali(src)
                   => \A i \in 1..Len(ali(src)[k]) : ali(src)[k][i] \notin hdrs(src)}
           short == {src \in {"mail", "crm"} : lacks(src) # {}}
       IN /\ sp_mark_start(r, u) => short = {}
          /\ start_run_refused(r, u)
             => /\ short # {}
                /\ resp'.code = 409
                /\ DOMAIN resp'.body = short
                /\ \A src \in short : resp'.body[src] = lacks(src)
                /\ runs' = runs
                /\ staging_mail' = staging_mail /\ staging_crm' = staging_crm
                /\ matches' = matches /\ workers' = workers
                /\ reqs' = reqs]_vars

\* a start was refused with only address1 of the mail file missing: both
\* files are there and the mail file's address column has an unknown header
C12_Witness ==
  /\ resp.op = "start" /\ resp.code = 409
  /\ DOMAIN resp.body = {"mail"}
  /\ resp.body["mail"] = {"address1"}
  /\ raw_mail[resp.run] # <<>> /\ raw_crm[resp.run] # <<>>

\* C11: an upload, a mapping, a start, a status or a result request of an
\* account on a run of another account changes none of the run row, the raw
\* rows, the mapping, the staging rows and the matches, and is not answered
\* with a success code
C11_CrossUserIsolation ==
  [][\A r \in RunIds, u \in ApiUsers :
       ( /\ runs[r].user_id # u
         /\ \/ \E f \in ApiMailFiles : ingest_raw_file_mail(r, u, f)
            \/ \E f \in ApiCrmFiles : ingest_raw_file_crm(r, u, f)
            \/ \E m \in ApiMappings : save_mapping(r, u, "mail", m)
            \/ sp_mark_start(r, u)
            \/ run_status(r, u)
            \/ run_result(r, u) )
       => /\ runs' = runs
          /\ raw_mail' = raw_mail /\ raw_crm' = raw_crm
          /\ mappings' = mappings
          /\ staging_mail' = staging_mail /\ staging_crm' = staging_crm
          /\ matches' = matches
          /\ resp'.code \notin {200, 201, 202}]_vars

\* C14: while a run of a user is in the matching or aggregating phase, an
\* upload of that user writes no raw row and is answered with a Conflict
\* (409)
C14_UploadRejectedWhileMatching ==
  [][\A r \in RunIds, u \in ApiUsers :
       ( /\ \E q \in RunIds : /\ runs[q].user_id = u
                               /\ runs[q].step \in {"matching", "aggregating"}
         /\ \/ \E f \in ApiMailFiles : ingest_raw_file_mail(r, u, f)
            \/ \E f \in ApiCrmFiles : ingest_raw_file_crm(r, u, f) )
       => /\ raw_mail' = raw_mail /\ raw_crm' = raw_crm
          /\ resp'.code = 409]_vars

\* C19: for every match a matcher thread computes from the staging rows of
\* its run for a CRM row that has a job date, the date of the winning mail row
\* (when it has one) and every date listed for the match are not later than
\* the job date
C19_MailNotAfterJob ==
  \A i \in WIds : \A o \in workers[i].out :
    o.crm_job_date.ty # "none"
    => /\ \A k \in 1..Len(workers[i].mail) :
            ( /\ workers[i].mail[k].line_no = o.mail_line_no
              /\ workers[i].mail[k].sent_date.ty # "none" )
            => workers[i].mail[k].sent_date.d <= o.crm_job_date.d
       /\ \A d \in o.mail_dates_in_window : d <= o.crm_job_date.d

\* C20: the mail row of an emitted match is, among the candidates of the CRM
\* row (same block, inside the date window) whose adjusted score equals the
\* winner's, one with the earliest mail date, a row without a date counting
\* as later than every date; the order of the mail rows in the input does
\* not matter
C20_EarliestDateWinsTies ==
  mt.called =>
    \A n \in 1..Len(mt.out) :
      LET o    == mt.out[n]
          crm  == prep_crm_rows(mt.crm)
          mail == prep_mail_rows(mt.mail)
          c    == crm[CHOOSE j \in 1..Len(crm) : crm[j].line_no = o.crm_line_no]
          win  == {k \in 1..Len(mail) :
                     /\ mail[k].blk = c.blk
                     /\ \/ c.date = NoDate
                        \/ mail[k].date = NoDate
                        \/ mail[k].date <= c.date}
          adj(k)  == bonus_adjust(token_set_ratio(c.addr_str, mail[k].addr_str))
          late(d) == IF d = NoDate THEN DateMax ELSE d
      IN \A k \in win :
           adj(k) = o.confidence_percent => late(o.mail_date) <= late(mail[k].date)

\* C21: the confidence_percent of a scored match is an integer between 0 and
\* 100 for every base score and every combination of the zip, city and state
\* bonuses, and the match is emitted
C21_ConfidenceInRange ==
  mt.called =>
    \A n \in 1..Len(mt.out) :
      /\ mt.out[n].confidence_percent \in 0..100
      /\ mt.out[n].emit

\* a base score of 98 with the three bonuses was scored: the cap applies
C21_Witness ==
  /\ mt.called
  /\ mt.score_base = 98 /\ mt.zip /\ mt.city /\ mt.state
  /\ mt.out[1].confidence_percent = 100

\* C22: in every result payload the monthly matches series sums to the
\* matches KPI
C22_GraphMatchesSumToKpi ==
  (resp.op = "result" /\ resp.code = 200)
  => SumSeries(resp.body.graph.matches) = resp.body.kpis.matches

\* C23: after any sequence of uploads the raw rows stored for a (run_id,
\* source) pair are the rows of the latest upload for that pair, numbered
\* 1..n with no gap and no duplicate; an upload for another pair leaves them
\* as they were
C23_RawRowsAreLatestUpload ==
  \A p \in DOMAIN mt.last :
    LET stored == {x \in mt[p[2]] : x.run_id = p[1]}
        file   == mt.last[p]
    IN /\ {x.rownum : x \in stored} = 1..Len(file)
       /\ Cardinality(stored) = Len(file)
       /\ \A x \in stored : x.data = file[x.rownum]

\* the latest mail file of run r1 has one row, of data b, while two CRM rows
\* of r1 and two mail rows of run r2 are in place
C23_Witness ==
  /\ Len(mt.last[<<"r1", "mail">>]) = 1
  /\ \E x \in mt.mail : x.run_id = "r1" /\ x.data = [h |-> "b"]
  /\ Len(mt.last[<<"r1", "crm">>]) = 2
  /\ Len(mt.last[<<"r2", "mail">>]) = 2

\* C24: no staging row is stored with an empty mail_key or job_index, and a
\* row that cannot be keyed does not abort the normalization: when the insert
\* step of a source is handed at least one row that has a key or both an
\* address and a date, the request goes on to the ready step of the source
\* with rows of the run in staging
C24_UnkeyedRowsDroppedNotFatal ==
  [][/\ \A m \in staging_mail' : ~ Falsy(m.mail_key)
     /\ \A c \in staging_crm' : ~ Falsy(c.job_index)
     /\ \A r \in RunIds :
          /\ ( /\ reqs[r].pc = "mail_inserting"
               /\ reqs'[r].pc # "mail_inserting"
               /\ \E i \in 1..Len(reqs[r].rows) :
                     \/ ~ Falsy(reqs[r].rows[i].mail_key)
                     \/ /\ build_full_address(reqs[r].rows[i].address1) # ""
                        /\ reqs[r].rows[i].sent_date # NoDate )
             => /\ reqs'[r].pc = "mail_ready"
                /\ \E m \in staging_mail' : m.run_id = r
          /\ ( /\ reqs[r].pc = "crm_inserting"
               /\ reqs'[r].pc # "crm_inserting"
               /\ reqs[r].rows # <<>> )
             => /\ reqs'[r].pc = "crm_ready"
                /\ \E c \in staging_crm' : c.run_id = r]_vars

\* C25: persisting the matches of a run is one transaction: no step of a
\* matcher thread leaves the match rows that the run had before the call
\* deleted with the new rows not yet written (the state a concurrent reader
\* would see, and the state that stays when the insert then fails)
C25_PersistIsOneTransaction ==
  [][\A i \in WIds :
       LET old == {m \in matches : m.run_id = workers[i].run
                                   /\ m.user_id = Owner(i)}
       IN ( /\ workers[i].pc = "delete"
            /\ workers'[i].pc = "insert"
            /\ old # {} )
          => \E m \in matches' : m.run_id = workers[i].run]_vars

\* the position of a step in the phase table of the pipeline (STEP is written
\* in phase order); a run that was never started has no step yet
PhaseRank(s) ==
  CASE s = NULL               -> 0
    [] s = "starting"         -> 1
    [] s = "normalizing_mail" -> 2
    [] s = "mail_inserting"   -> 3
    [] s = "mail_ready"       -> 4
    [] s = "normalizing_crm"  -> 5
    [] s = "crm_inserting"    -> 6
    [] s = "crm_ready"        -> 7
    [] s = "matching"         -> 8
    [] s = "aggregating"      -> 9
    [] s = "done"             -> 10
    [] s = "failed"           -> 10

\* C27: the reported progress of a run is monotone under every interleaving
\* of the phase updates of its matcher thread with the heartbeat ticks: no
\* step of the thread or of its heartbeat lowers the pct of the run or moves
\* its step back to an earlier phase
C27_MonotoneProgress ==
  [][\A i \in WIds :
       Worker(i) =>
         /\ runs'[workers[i].run].pct >= runs[workers[i].run].pct
         /\ PhaseRank(runs'[workers[i].run].step)
              >= PhaseRank(runs[workers[i].run].step)]_vars

\* C29: the result of a done run is stable: a step of the pipeline of
\* another run (one that re-ingests rows with the same mail_key or job_index
\* included) leaves the KPIs that result(run_id) returns for the done run
\* as they were (the run is still done and the matcher, run on its staging
\* rows after the step, gives the kpis.matches of before) and leaves
\* pair_ready(run_id) true
C29_DoneResultStable ==
  [][\A r \in RunIds : \A r2 \in RunIds \ {r} :
       ( /\ runs[r].status = "done"
         /\ pair_ready(r)
         /\ Pipeline(r2) )
       => /\ pair_ready(r)'
          /\ runs'[r].status = "done"
          /\ Len(run_matching(fetch_normalized_mail_rows(r, NULL)',
                              fetch_normalized_crm_rows(r, NULL)', LIMIT_TOPK))
               = get_result(r, runs[r].user_id).body.kpis.matches]_vars

Next ==
  \/ \E i \in WIds : Worker(i)
  \/ \E r \in RunIds : Pipeline(r)
  \/ \E u \in Users : create_or_get_active_run(u)
  \/ \E r \in RunIds, f \in MailFiles :
        /\ runs[r].step = NULL /\ raw_mail[r] = <<>>
        /\ ingest_raw_file_mail(r, runs[r].user_id, f)
  \/ \E r \in RunIds, f \in CrmFiles :
        runs[r].step = NULL /\ ingest_raw_file_crm(r, runs[r].user_id, f)
  \/ \E r \in RunIds :
        /\ runs[r].step = NULL /\ raw_mail[r] # <<>>
        /\ save_mapping(r, runs[r].user_id, "mail", MappingKey)

Spec == Init /\ [][Next]_vars

\* ------------------------------------------------ the open API environment
\* two accounts, any caller on any run, uploads and mappings at any time;
\* the matcher thread ends before the first heartbeat is due;
\* resp keeps the answer of the first request that leaves the database as
\* it was, and the behaviour is followed up to that answer
MaxApiStarts == 1
MaxApiRuns   == 1

NextApi ==
  \/ \E i \in WIds : resp = NoResp /\ WorkerRun(i)
  \/ \E r \in RunIds : resp = NoResp /\ PipelineRun(r)
  \/ \E r \in RunIds, u \in ApiUsers :
        resp = NoResp /\ nstarts < MaxApiStarts /\ sp_mark_start(r, u)
  \/ \E r \in RunIds, u \in ApiUsers : resp = NoResp /\ start_run_refused(r, u)
  \/ \E u \in ApiUsers :
        resp = NoResp /\ Len(runs) < MaxApiRuns /\ create_or_get_active_run(u)
  \/ \E u \in ApiUsers : resp = NoResp /\ create_run_reuse(u)
  \/ \E r \in RunIds, u \in ApiUsers, f \in ApiMailFiles :
        resp = NoResp /\ ingest_raw_file_mail(r, u, f)
  \/ \E r \in RunIds, u \in ApiUsers, f \in ApiCrmFiles :
        resp = NoResp /\ ingest_raw_file_crm(r, u, f)
  \/ \E r \in RunIds, u \in ApiUsers, m \in ApiMappings :
        resp = NoResp /\ save_mapping(r, u, "mail", m)
  \/ \E r \in RunIds, u \in ApiUsers : resp = NoResp /\ run_status(r, u)
  \/ \E r \in 1..(Len(runs) + 1), u \in ApiUsers :
        resp = NoResp /\ run_result(r, u)

SpecApi == Init /\ [][NextApi]_vars

\* ------------------------------------------------ run creation environment
\* two accounts create runs; each run gets its files and its mapping once,
\* from its owner, before its owner starts it once; the behaviour is
\* followed up to the first create request answered with an existing run
RunsCrmFiles == CrmFiles

NextRuns ==
  \/ \E i \in WIds : resp = NoResp /\ WorkerRun(i)
  \/ \E r \in RunIds : resp = NoResp /\ PipelineRun(r)
  \/ \E r \in RunIds :
        /\ resp = NoResp /\ runs[r].step = NULL
        /\ sp_mark_start(r, runs[r].user_id)
  \/ \E u \in ApiUsers : resp = NoResp /\ create_or_get_active_run(u)
  \/ \E u \in ApiUsers : resp = NoResp /\ create_run_reuse(u)
  \/ \E r \in RunIds :
        /\ resp = NoResp /\ runs[r].step = NULL /\ raw_mail[r] = <<>>
        /\ ingest_raw_file_mail(r, runs[r].user_id, MailFileLocation)
  \/ \E r \in RunIds, f \in RunsCrmFiles :
        /\ resp = NoResp /\ runs[r].step = NULL /\ raw_crm[r] = <<>>
        /\ ingest_raw_file_crm(r, runs[r].user_id, f)
  \/ \E r \in RunIds :
        /\ resp = NoResp /\ runs[r].step = NULL /\ raw_mail[r] # <<>>
        /\ get_mapping(r, "mail") = NoMapping
        /\ save_mapping(r, runs[r].user_id, "mail", MappingLocation)

SpecRuns == Init /\ [][NextRuns]_vars

\* ------------------------------------------------ the matcher called directly
\* run_matching on up to MaxMailRows mail rows of one block and one CRM row,
\* dates given as text, with TOPK_RECHECK unset (1) or 2
MaxMailRows == 2

MatchAddresses == {"12 main st", "12 Main Street", "12 maple st"}
MatchDays      == {NoDate, 5, 10}
TopKs          == {LIMIT_TOPK, LIMIT_TOPK + 1}

MatchMail ==
  UNION {{[i \in 1..n |-> [line_no |-> i, address1 |-> f[i][1],
                           sent_date |-> PyStr(f[i][2])]] :
            f \in [1..n -> MatchAddresses \X MatchDays]} : n \in 1..MaxMailRows}

MatchCrm ==
  {<<[line_no |-> 1, job_index |-> "j1", address1 |-> "12 main st",
      job_date |-> PyStr(d)]>> : d \in MatchDays}

InitMatch ==
  /\ runs = <<>>
  /\ raw_mail = <<>>
  /\ raw_crm = <<>>
  /\ staging_mail = {}
  /\ staging_crm = {}
  /\ matches = {}
  /\ reqs = <<>>
  /\ workers = <<>>
  /\ nstarts = 0
  /\ mappings = {}
  /\ resp = NoResp
  /\ mt \in {[mail |-> m, crm |-> c, topk |-> k, called |-> FALSE, out |-> <<>>] :
               m \in MatchMail, c \in MatchCrm, k \in TopKs}

NextMatch == call_run_matching

SpecMatch == InitMatch /\ [][NextMatch]_vars

\* ------------------------------------------------ the scoring called directly
\* every base score fuzz.token_set_ratio can give (0 to 100), with and
\* without each bonus
MaxBase == 100

InitScore ==
  /\ runs = <<>>
  /\ raw_mail = <<>>
  /\ raw_crm = <<>>
  /\ staging_mail = {}
  /\ staging_crm = {}
  /\ matches = {}
  /\ reqs = <<>>
  /\ workers = <<>>
  /\ nstarts = 0
  /\ mappings = {}
  /\ resp = NoResp
  /\ mt \in {[score_base |-> b, zip |-> z, city |-> c, state |-> t,
               called |-> FALSE, out |-> <<>>] :
               b \in 0..MaxBase, z \in BOOLEAN, c \in BOOLEAN, t \in BOOLEAN}

NextScore == call_bonus_adjust

SpecScore == InitScore /\ [][NextScore]_vars

\* ------------------------------------------------ raw ingestion on its own
\* uploads of files of up to MaxRawRows rows for two runs and both sources
MaxRawRows == 2

RawRuns  == {"r1", "r2"}
RawCells == {[h |-> "a"], [h |-> "b"]}
RawFiles == UNION {[1..n -> RawCells] : n \in 0..MaxRawRows}

InitRaw ==
  /\ runs = <<>>
  /\ raw_mail = <<>>
  /\ raw_crm = <<>>
  /\ staging_mail = {}
  /\ staging_crm = {}
  /\ matches = {}
  /\ reqs = <<>>
  /\ workers = <<>>
  /\ nstarts = 0
  /\ mappings = {}
  /\ resp = NoResp
  /\ mt = [mail |-> {}, crm |-> {},
           last |-> [p \in RawRuns \X {"mail", "crm"} |-> <<>>]]

NextRaw ==
  \E rid \in RawRuns, uid \in Users, source \in {"mail", "crm"},
     rows \in RawFiles : call_insert_raw_rows(rid, uid, source, rows)

SpecRaw == InitRaw /\ [][NextRaw]_vars

\* ------------------------------------------ the matcher on localities
\* run_matching on up to MaxPickRows undated mail rows of one block, with
\* city and state known or empty, and one CRM row, with TOPK_RECHECK 1 or 2
MaxPickRows == 3

PickAddresses == {"12 maine st", "12 mainly st", "12 maple st"}
PickCities    == {"", "springfield"}
PickStates    == {"", "il"}

PickMail ==
  UNION {{[i \in 1..n |-> [line_no |-> i, address1 |-> f[i][1],
                           sent_date |-> PyStr(NoDate), zip |-> "62701",
                           city |-> f[i][2], state |-> f[i][3]]] :
            f \in [1..n -> PickAddresses \X PickCities \X PickStates]} :
         n \in 1..MaxPickRows}

PickCrm ==
  {<<[line_no |-> 1, job_index |-> "j1", address1 |-> "12 main st",
      job_date |-> PyStr(NoDate), zip |-> "62701", city |-> "springfield",
      state |-> "il"]>>}

\* C28: the confidence_percent of an emitted match is the highest adjusted
\* score (base score plus bonuses, capped) among the candidates of its CRM
\* row that are left after the filters, and the winning mail row has it, with
\* TOPK_RECHECK 1 and with TOPK_RECHECK 2
C28_WinnerHasMaxAdjustedScore ==
  mt.called =>
    \A n \in 1..Len(mt.out) :
      LET o    == mt.out[n]
          crm  == prep_crm_rows(mt.crm)
          mail == prep_mail_rows(mt.mail)
          c    == crm[CHOOSE j \in 1..Len(crm) : crm[j].line_no = o.crm_line_no]
          post == fast_filters(c, date_window(c, block_candidates(c, mail)))
          adj(k) == bonus_adjust_rows(
                      token_set_ratio(c.addr_str, post[k].addr_str), post[k], c)
      IN /\ \A k \in 1..Len(post) : adj(k) <= o.confidence_percent
         /\ \E k \in 1..Len(post) : /\ post[k].line_no = o.mail_line_no
                                     /\ adj(k) = o.confidence_percent

InitPick ==
  /\ runs = <<>>
  /\ raw_mail = <<>>
  /\ raw_crm = <<>>
  /\ staging_mail = {}
  /\ staging_crm = {}
  /\ matches = {}
  /\ reqs = <<>>
  /\ workers = <<>>
  /\ nstarts = 0
  /\ mappings = {}
  /\ resp = NoResp
  /\ mt \in {[mail |-> m, crm |-> c, topk |-> k, called |-> FALSE, out |-> <<>>] :
               m \in PickMail, c \in PickCrm, k \in TopKs}

NextPick == call_run_matching

SpecPick == InitPick /\ [][NextPick]_vars

\* ------------------------------------------------ dao/runs_dao.py, GET /runs
\* the run history of a table of MaxListRuns runs, read page by page by a
\* client that passes the next_cursor of a page as the before of the next
MaxListRuns == 3

ListTimes  == {1, 2}
ListLimits == {0, 1, 2, 3}

\* the limit after int(max(1, min(limit, 100)))
clamp_limit(limit) == IF limit < 1 THEN 1 ELSE Min(limit, 100)

\* SELECT started_at FROM runs WHERE id = :rid, 0 when there is no such run
\* (or no cursor)
anchor_of(tbl, before_run_id) ==
  IF \E x \in tbl : x.id = before_run_id
    THEN (CHOOSE x \in tbl : x.id = before_run_id).started_at
    ELSE 0

\* list_for_user: the runs of the user, older than the anchor when there
\* is one, ORDER BY started_at DESC LIMIT lim; the database may return runs
\* of equal started_at in any order, so every such page is a result
list_for_user(tbl, user_id, limit, before_run_id) ==
  LET anchor == anchor_of(tbl, before_run_id)
      rows   == {x \in tbl : /\ x.user_id = user_id
                             /\ (anchor = 0 \/ x.started_at < anchor)}
      k      == Min(clamp_limit(limit), Cardinality(rows))
  IN {pg \in [1..k -> rows] :
        /\ \A i, j \in 1..k : i < j => /\ pg[i] # pg[j]
                                        /\ pg[i].started_at >= pg[j].started_at
        /\ \A x \in rows : (\A i \in 1..k : pg[i] # x)
                              => \A i \in 1..k : pg[i].started_at >= x.started_at}

\* GET /runs?limit=..&before=..: the items and the next_cursor, which the
\* client passes back until a page comes back empty
list_runs ==
  /\ ~ mt.done
  /\ \E pg \in list_for_user(mt.tbl, mt.uid, mt.limit, mt.before) :
       mt' = [mt EXCEPT !.seen = @ \o pg,
                        !.before = IF pg # <<>> THEN pg[Len(pg)].id ELSE 0,
                        !.done = (pg = <<>>)]
  /\ UNCHANGED <<runs, raw_mail, raw_crm, staging_mail, staging_crm, matches,
                 reqs, workers, nstarts, mappings, resp>>

\* C30: when the client has followed next_cursor to the empty page, the
\* pages it received hold every run of the user exactly once, newest first,
\* for every page size and also when runs share a started_at
C30_PaginationEnumeratesAllRuns ==
  mt.done =>
    /\ \A x \in mt.tbl : x.user_id = mt.uid
          => Cardinality({i \in 1..Len(mt.seen) : mt.seen[i] = x}) = 1
    /\ \A i, j \in 1..Len(mt.seen) :
          i < j => mt.seen[i].started_at >= mt.seen[j].started_at

InitList ==
  /\ runs = <<>>
  /\ raw_mail = <<>>
  /\ raw_crm = <<>>
  /\ staging_mail = {}
  /\ staging_crm = {}
  /\ matches = {}
  /\ reqs = <<>>
  /\ workers = <<>>
  /\ nstarts = 0
  /\ mappings = {}
  /\ resp = NoResp
  /\ \E us \in [1..MaxListRuns -> ApiUsers], ts \in [1..MaxListRuns -> ListTimes],
        lim \in ListLimits :
       mt = [tbl |-> {[id |-> i, user_id |-> us[i], started_at |-> ts[i]] :
                        i \in 1..MaxListRuns},
             uid |-> "u1", limit |-> lim, before |-> 0, seen |-> <<>>,
             done |-> FALSE]

NextList == list_runs

SpecList == InitList /\ [][NextList]_vars

\* ------------------------------------------------------- app/assets_bp.py
\* paths are sequences of segments below the filesystem root; a filename of
\* the <path:filename> converter never starts with a slash, so os.path.join
\* always appends it to the root
root_path == <<"srv", "app">>

\* current_app.static_folder: unset, the default, or a custom folder
StaticFolders == {<<>>, <<"srv", "app", "static">>, <<"srv", "pub">>}

Subdirs == {"assets", "assets_v47_fix"}

\* the entries the filesystem may hold, each absent, a regular file or a
\* directory
FsPaths ==
  { <<"srv", "app", "static", "assets", "app.css">>,
    <<"srv", "assets", "chart.js">>,
    <<"srv", "app", "static", "secret.css">>,
    <<"srv", "pub", "assets", "logo.png">> }

FsKinds == {"none", "file", "dir"}

Filenames ==
  { <<"app.css">>, <<"chart.js">>, <<"logo.png">>, <<".">>,
    <<"missing.css">>, <<"missing.js">>, <<"missing.png">>,
    <<"..", "secret.css">>,
    <<"..", "..", "..", "assets", "chart.js">> }

CssNames == {"app.css", "secret.css", "missing.css"}
JsNames  == {"chart.js", "missing.js"}

\* str.endswith on the requested name as it was received
endswith(filename, suffix) ==
  CASE suffix = ".css" -> filename[Len(filename)] \in CssNames
    [] suffix = ".js"  -> filename[Len(filename)] \in JsNames

\* os.path.abspath: "." is dropped, ".." removes the segment before it and
\* stays at the filesystem root
RECURSIVE abspath_from(_, _)
abspath_from(acc, segs) ==
  IF segs = <<>> THEN acc
  ELSE LET x == Head(segs)
           nxt == IF x = "." THEN acc
                  ELSE IF x = ".."
                       THEN IF acc = <<>> THEN acc
                            ELSE SubSeq(acc, 1, Len(acc) - 1)
                       ELSE Append(acc, x)
       IN abspath_from(nxt, Tail(segs))

abspath(segs) == abspath_from(<<>>, segs)

\* path == full_root or path.startswith(full_root + os.sep)
within_root(path, full_root) ==
  \/ path = full_root
  \/ /\ Len(path) > Len(full_root)
     /\ SubSeq(path, 1, Len(full_root)) = full_root

\* what the filesystem holds at a path: an entry of the table, or a
\* directory when an entry lies below it
fs_kind(fs, path) ==
  IF path \in FsPaths THEN fs[path]
  ELSE IF \E q \in FsPaths : /\ fs[q] # "none"
                             /\ Len(q) > Len(path)
                             /\ SubSeq(q, 1, Len(path)) = path
       THEN "dir"
       ELSE "none"

\* os.path.exists is true for files and for directories
path_exists(fs, path) == fs_kind(fs, path) # "none"

candidate_roots(static_folder, subdir) ==
  (IF static_folder # <<>> THEN << static_folder \o <<subdir>> >> ELSE <<>>)
  \o << root_path \o <<"static", subdir>>,
        abspath(root_path \o <<"..", subdir>>) >>

guess_type(name) ==
  IF name \in CssNames THEN "text/css"
  ELSE IF name \in JsNames THEN "text/javascript"
  ELSE "image/png"

NotFound == [status |-> 404, mimetype |-> "text/html", body |-> "", root |-> <<>>]

\* flask.send_from_directory: the file when the path is a regular file,
\* NotFound for anything else
send_from_directory(fs, full_root, path) ==
  IF fs_kind(fs, path) = "file"
    THEN [status |-> 200, mimetype |-> guess_type(path[Len(path)]),
          body |-> "file", root |-> full_root]
    ELSE NotFound

\* the fallbacks after the loop
missing_fallback(filename) ==
  IF endswith(filename, ".css")
    THEN [status |-> 200, mimetype |-> "text/css", body |-> "", root |-> <<>>]
  ELSE IF endswith(filename, ".js")
    THEN [status |-> 200, mimetype |-> "application/javascript",
          body |-> "/* placeholder */", root |-> <<>>]
  ELSE NotFound

\* the loop over the candidate roots, from root k on
RECURSIVE send_from_roots_at(_, _, _, _)
send_from_roots_at(fs, roots, filename, k) ==
  IF k > Len(roots) THEN missing_fallback(filename)
  ELSE LET full_root == abspath(roots[k])
           path == abspath(full_root \o filename)
       IN IF ~ within_root(path, full_root)
            THEN send_from_roots_at(fs, roots, filename, k + 1)
          ELSE IF path_exists(fs, path)
            THEN send_from_directory(fs, full_root, path)
          ELSE send_from_roots_at(fs, roots, filename, k + 1)

safe_send_from_roots(fs, static_folder, subdir, filename) ==
  send_from_roots_at(fs, candidate_roots(static_folder, subdir), filename, 1)

\* GET /assets/<path:filename> and GET /assets_v47_fix/<path:filename>
call_assets ==
  /\ ~ mt.called
  /\ mt' = [mt EXCEPT !.called = TRUE,
                      !.out = safe_send_from_roots(mt.fs, mt.static_folder,
                                                   mt.subdir, mt.filename)]
  /\ UNCHANGED <<runs, raw_mail, raw_crm, staging_mail, staging_crm, matches,
                 reqs, workers, nstarts, mappings, resp>>

\* a regular file lies at the requested name inside some candidate root
AssetFileExists ==
  LET roots == candidate_roots(mt.static_folder, mt.subdir)
  IN \E k \in 1..Len(roots) :
       /\ within_root(abspath(roots[k] \o mt.filename), roots[k])
       /\ fs_kind(mt.fs, abspath(roots[k] \o mt.filename)) = "file"

\* C26: a request for an asset whose file exists under no candidate root is
\* answered 200 with an empty text/css body when the name ends in .css, 200
\* with an application/javascript body when it ends in .js and 404
\* otherwise; and a response served from a root is a path inside that root
C26_MissingAssetFallback ==
  mt.called =>
    /\ ~ AssetFileExists =>
         IF endswith(mt.filename, ".css")
           THEN /\ mt.out.status = 200
                /\ mt.out.mimetype = "text/css"
                /\ mt.out.body = ""
         ELSE IF endswith(mt.filename, ".js")
           THEN /\ mt.out.status = 200
                /\ mt.out.mimetype = "application/javascript"
         ELSE mt.out.status = 404
    /\ mt.out.root # <<>> =>
         within_root(abspath(mt.out.root \o mt.filename), mt.out.root)

InitAssets ==
  /\ runs = <<>>
  /\ raw_mail = <<>>
  /\ raw_crm = <<>>
  /\ staging_mail = {}
  /\ staging_crm = {}
  /\ matches = {}
  /\ reqs = <<>>
  /\ workers = <<>>
  /\ nstarts = 0
  /\ mappings = {}
  /\ resp = NoResp
  /\ mt \in {[fs |-> f, static_folder |-> sf, subdir |-> sd, filename |-> fn,
               called |-> FALSE, out |-> NotFound] :
               f \in [FsPaths -> FsKinds], sf \in StaticFolders,
               sd \in Subdirs, fn \in Filenames}

NextAssets == call_assets

SpecAssets == InitAssets /\ [][NextAssets]_vars

====
